---- MODULE Spec2Model ----
(***************************************************************************)
(* Model of static/js/script.js of the Home Service Recommender: the       *)
(* handlers registered on DOMContentLoaded (copy contact, review form,     *)
(* booking form, remove booking, remove user, delete my account), the      *)
(* requests they have in flight, the timers they schedule and the part of  *)
(* the document they read and write.                                       *)
(*                                                                         *)
(* One step of the model is one run of JavaScript to completion: the       *)
(* synchronous part of a handler up to its first await, the continuation   *)
(* of a handler once its fetch/json promise settles, or a timer callback.  *)
(* alert() blocks the event loop: the statements after it run when the     *)
(* dialog is dismissed, and nothing else runs while it is open.            *)
(***************************************************************************)
EXTENDS Integers, Sequences, FiniteSets, TLC

\* ------------------------------------------------------------------------
\* Bounds of the model
\* ------------------------------------------------------------------------

\* Number of actions (copy click, form submit, removal click, deletion click)
\* the user triggers on one document.
MaxActions == 2

\* ------------------------------------------------------------------------
\* Program constants
\* ------------------------------------------------------------------------

\* setTimeout(..., 1500) of the review success branch.
ReloadDelay == 1500

\* setTimeout(..., 2000) of the copy handler.
CopiedDelay == 2000

\* ------------------------------------------------------------------------
\* Values
\* ------------------------------------------------------------------------

\* Values of the inputs that the handlers parse as numbers are sequences of
\* characters; values that are passed through are atoms.
ServiceIdValues == { <<"7">>, <<"7", "a">>, <<>> }

RatingValues == { <<>>, <<"4", ".", "5">>, <<"a", "b", "c">> }

CommentValues == { "", "Great" }

DateValues == { "", "2025-01-01" }

NotesValues == { "", "x" }

\* data-booking-id / data-user-id attributes of the removal controls, and the
\* rows booking-row-<id> / user-row-<id> the page is rendered with.
BookingIds == { "b1", "b2" }

UserIds == { "u1", "u2" }

\* The message field of a server response.
ServerMessages == { "m1", "m2" }

\* What the promise chain await fetch(...) / await response.json() yields:
\* a parsed body with a truthy success, a parsed body with a falsy success,
\* or a rejection (network error, body that is not JSON).
Outcomes ==
    [kind : {"success", "failure"}, message : ServerMessages]
        \cup { [kind |-> "throw", message |-> ""] }

\* ------------------------------------------------------------------------
\* parseInt, parseFloat and JSON.stringify of a number
\* ------------------------------------------------------------------------

Digits == { "0", "1", "2", "3", "4", "5", "6", "7", "8", "9" }

DigitVal(c) ==
    CASE c = "0" -> 0 [] c = "1" -> 1 [] c = "2" -> 2 [] c = "3" -> 3
      [] c = "4" -> 4 [] c = "5" -> 5 [] c = "6" -> 6 [] c = "7" -> 7
      [] c = "8" -> 8 [] c = "9" -> 9

\* A JavaScript number: NaN, or num / 10^scale.
NaN == [nan |-> TRUE, num |-> 0, scale |-> 0]

Num(n, s) == [nan |-> FALSE, num |-> n, scale |-> s]

\* Length of the longest prefix of s made of digits.
RECURSIVE DigitPrefixLen(_)
DigitPrefixLen(s) ==
    IF s = <<>> \/ Head(s) \notin Digits THEN 0
    ELSE 1 + DigitPrefixLen(Tail(s))

\* Value of a sequence of digits read in base 10.
RECURSIVE DigitsValue(_)
DigitsValue(s) ==
    IF s = <<>> THEN 0
    ELSE 10 * DigitsValue(SubSeq(s, 1, Len(s) - 1)) + DigitVal(s[Len(s)])

\* s without its leading white space.
RECURSIVE TrimStart(_)
TrimStart(s) ==
    IF s # <<>> /\ Head(s) = " " THEN TrimStart(Tail(s)) ELSE s

\* s without an optional leading sign.
Unsigned(s) ==
    IF s # <<>> /\ Head(s) \in {"+", "-"} THEN Tail(s) ELSE s

Sign(s) ==
    IF s # <<>> /\ Head(s) = "-" THEN -1 ELSE 1

\* parseInt(s): white space and a sign are skipped, the longest run of
\* digits is read and what follows it is ignored; NaN when there is no digit.
ParseInt(s) ==
    LET t == TrimStart(s)
        u == Unsigned(t)
        n == DigitPrefixLen(u)
    IN  IF n = 0 THEN NaN
        ELSE Num(Sign(t) * DigitsValue(SubSeq(u, 1, n)), 0)

\* A number whose fraction has no trailing zero.
RECURSIVE Normalise(_)
Normalise(x) ==
    IF x.scale > 0 /\ x.num % 10 = 0
    THEN Normalise(Num(x.num \div 10, x.scale - 1))
    ELSE x

RECURSIVE Pow10(_)
Pow10(k) == IF k = 0 THEN 1 ELSE 10 * Pow10(k - 1)

\* parseFloat(s): as parseInt, with an optional fraction after the integer
\* part; what follows the number is ignored; NaN when there is no digit.
ParseFloat(s) ==
    LET t == TrimStart(s)
        u == Unsigned(t)
        n == DigitPrefixLen(u)
        rest == SubSeq(u, n + 1, Len(u))
        f == IF rest # <<>> /\ Head(rest) = "." THEN DigitPrefixLen(Tail(rest))
             ELSE 0
    IN  IF n = 0 /\ f = 0 THEN NaN
        ELSE Normalise(Num(Sign(t) * (DigitsValue(SubSeq(u, 1, n)) * Pow10(f)
                                      + DigitsValue(SubSeq(rest, 2, f + 1))),
                           f))

\* The JSON value JSON.stringify writes for a number: NaN is written null.
JsonNull == [type |-> "null", num |-> 0, scale |-> 0]

JsonNumber(x) ==
    IF x.nan THEN JsonNull
    ELSE [type |-> "number", num |-> x.num, scale |-> x.scale]

\* ------------------------------------------------------------------------
\* State
\* ------------------------------------------------------------------------

VARIABLES
    page,            \* which page of the application the document is
    fields,          \* value of the six inputs of the two forms
    reviewMessage,   \* content of #reviewMessage
    bookingMessage,  \* content of #bookingMessage
    bookingRows,     \* ids X whose row booking-row-X is in the document
    userRows,        \* ids X whose row user-row-X is in the document
    copied,          \* for each copied-message span: is it shown (no d-none)
    bodyTextAreas,   \* number of temporary textareas in document.body
    inflight,        \* requests whose handler is suspended at an await
    timers,          \* pending setTimeout callbacks, in scheduling order
    alertOpen,       \* the alert() the event loop is blocked on, if any
    location,        \* what the window shows: this document or another one
    triggered,       \* number of actions triggered so far
    issued,          \* number of fetch calls made so far
    consumed,        \* number of responses (or rejections) handled so far
    lastSubmit,      \* per form, the request of its latest submit event
    lastEvent        \* the handler step that produced this state

vars == <<page, fields, reviewMessage, bookingMessage, bookingRows, userRows, copied,
          bodyTextAreas, inflight, timers, alertOpen, location, triggered,
          issued, consumed, lastSubmit, lastEvent>>


\* The step a state results from: the handler that ran, the request it issued
\* or whose response it handled (0: none), the outcome it handled, the answer
\* given to confirm() and whether getElementById found the row to remove.
NoOutcome == [kind |-> "none", message |-> ""]

Event(op, req, outcome, ok) ==
    [op |-> op, req |-> req, outcome |-> outcome, ok |-> ok, found |-> TRUE]

\* The latest submit event of each form: -1 when there was none, 0 when it
\* issued no request, else the request it issued; and the outcome of that
\* request once its response was handled.
NoSubmit ==
    [review |-> -1, booking |-> -1,
     reviewOutcome |-> NoOutcome, bookingOutcome |-> NoOutcome]

\* lastSubmit after the response of request req of a form was handled with o.
Settled(ls, form, req, o) ==
    CASE form = "review" /\ ls.review = req -> [ls EXCEPT !.reviewOutcome = o]
      [] form = "booking" /\ ls.booking = req -> [ls EXCEPT !.bookingOutcome = o]
      [] OTHER -> ls

\* innerHTML and className of a message area; req is the request whose
\* handler wrote it (0: none).
Message(kind, text, className, req) ==
    [kind |-> kind, text |-> text, className |-> className, req |-> req]

\* An open alert(): its text, and what the handler that opened it for request
\* req does once it is dismissed (then, id).
NoAlert ==
    [open |-> FALSE, text |-> <<>>, then |-> "nothing", id |-> "", req |-> 0]

Alert(text, then, id, req) ==
    [open |-> TRUE, text |-> text, then |-> then, id |-> id, req |-> req]

\* The document is live and no dialog blocks the event loop.
Idle == location = "page" /\ ~alertOpen.open

\* ------------------------------------------------------------------------
\* The pages the script is loaded by
\* ------------------------------------------------------------------------

\* The script registers a handler only on the elements the document has
\* (querySelectorAll(...).forEach, if (reviewForm), if (bookingForm),
\* if (deleteMyAccountBtn)): the list of services has copy controls
\* (contact-X), the page of one service a copy control (contact-detail) and
\* the review form, the booking page the booking form, the bookings page the
\* booking removal controls and the account deletion control, the admin
\* panel the user removal controls.
Pages == { "services", "service", "booking", "bookings", "admin" }

HasReviewForm(p) == p = "service"

HasBookingForm(p) == p = "booking"

RemoveBookingButtons(p) == IF p = "bookings" THEN BookingIds ELSE {}

RemoveUserButtons(p) == IF p = "admin" THEN UserIds ELSE {}

HasDeleteMyAccountBtn(p) == p = "bookings"

\* ------------------------------------------------------------------------
\* Copy contact number
\* ------------------------------------------------------------------------

\* An attribute read with getAttribute: null when the element lacks it.
NoAttribute == [present |-> FALSE, value |-> <<>>]

Attribute(v) == [present |-> TRUE, value |-> v]

\* The .copy-contact-btn controls of a page: data-contact and data-target.
CopyButtons(p) ==
    CASE p = "services" ->
           { [contact |-> "555-1234", target |-> Attribute(<<"contact", "-", "1">>)],
             [contact |-> "555-9999", target |-> Attribute(<<"contact", "-", "2">>)],
             [contact |-> "555-0000", target |-> Attribute(<<"contact", "-", "9">>)],
             [contact |-> "555-0000", target |-> NoAttribute] }
      [] p = "service" ->
           { [contact |-> "555-1234",
              target |-> Attribute(<<"contact", "-", "detail">>)],
             [contact |-> "555-1234", target |-> Attribute(<<"contact">>)] }
      [] OTHER -> {}

\* The spans copied-message-<suffix> a page contains.
CopiedSpans(p) ==
    CASE p = "services" -> { <<"1">>, <<"2">> }
      [] p = "service" -> { <<"detail">> }
      [] OTHER -> {}

\* s.split('-'): the segments of s between the separators.
RECURSIVE Split(_)
Split(s) ==
    IF s = <<>> THEN << <<>> >>
    ELSE LET rest == Split(Tail(s))
         IN  IF Head(s) = "-" THEN << <<>> >> \o rest
             ELSE << <<Head(s)>> \o Head(rest) >> \o Tail(rest)

\* targetId.split('-')[1] || 'detail': the suffix of the span's id.
CopiedSuffix(targetId) ==
    LET parts == Split(targetId)
    IN  IF Len(parts) >= 2 /\ parts[2] # <<>> THEN parts[2] ELSE <<"detail">>

HideTimer(span) ==
    [kind |-> "hide", delay |-> CopiedDelay, span |-> span, req |-> 0]

\* document.body after appendChild(tempTextArea) ... removeChild(tempTextArea)
AppendChild(n) == n + 1

\* Variant of RemoveChild: the textarea stays in the body.
RemoveChild_Missing(n) == n

RemoveChild(n) == n - 1

\* Click on a copy control.  threw: document.execCommand('copy') throws.
CopyClick(b, threw) ==
    /\ Idle
    /\ triggered < MaxActions
    /\ triggered' = triggered + 1
    /\ lastEvent' = Event("CopyClick", 0, NoOutcome, TRUE)
    /\ IF ~b.target.present
       THEN \* targetId is null: targetId.split throws, the handler ends
            UNCHANGED <<copied, timers, bodyTextAreas>>
       ELSE LET span == CopiedSuffix(b.target.value)
            IN  /\ bodyTextAreas' = RemoveChild(AppendChild(bodyTextAreas))
                /\ IF ~threw /\ span \in CopiedSpans(page)
                   THEN /\ copied' = [copied EXCEPT ![span] = TRUE]
                        /\ timers' = Append(timers, HideTimer(span))
                   ELSE UNCHANGED <<copied, timers>>
    /\ UNCHANGED <<page, lastSubmit, fields, reviewMessage, bookingMessage, bookingRows, userRows,
                   inflight, alertOpen, location, issued, consumed>>

\* ------------------------------------------------------------------------
\* Timers
\* ------------------------------------------------------------------------

\* Timer i may fire next: no timer scheduled before it expires before it.
MayFire(i) ==
    /\ i \in 1..Len(timers)
    /\ \A j \in 1..(i - 1) : timers[j].delay > timers[i].delay

RemoveAt(s, i) == SubSeq(s, 1, i - 1) \o SubSeq(s, i + 1, Len(s))

TimerFire(i) ==
    /\ Idle
    /\ MayFire(i)
    /\ timers' = RemoveAt(timers, i)
    /\ lastEvent' = Event("TimerFire", timers[i].req, NoOutcome, TRUE)
    /\ IF timers[i].kind = "hide"
       THEN /\ copied' = [copied EXCEPT ![timers[i].span] = FALSE]
            /\ UNCHANGED location
       ELSE /\ location' = "page (reloaded)"
            /\ UNCHANGED copied
    /\ UNCHANGED <<page, lastSubmit, fields, reviewMessage, bookingMessage, bookingRows, userRows,
                   bodyTextAreas, inflight, alertOpen, triggered, issued,
                   consumed>>


\* ------------------------------------------------------------------------
\* Requests
\* ------------------------------------------------------------------------

\* A request in flight.  edited and cleared record what happened to the inputs
\* of its form since it was issued: the user edited one, the success branch of
\* another submission emptied one.
Request(id, endpoint, payload) ==
    [id |-> id, endpoint |-> endpoint, payload |-> payload,
     edited |-> FALSE, cleared |-> FALSE]

\* Variant of Fetch: the request is sent a second time.
Fetch_Resent(reqs, id, endpoint, payload) ==
    reqs \cup { Request(id, endpoint, payload), Request(id + 100, endpoint, payload) }

\* Variant of Fetch: nothing is sent while a request with the same endpoint
\* and body is outstanding.
Fetch_Deduplicated(reqs, id, endpoint, payload) ==
    IF \E r \in reqs : r.endpoint = endpoint /\ r.payload = payload
    THEN reqs
    ELSE reqs \cup { Request(id, endpoint, payload) }

\* Variant of Fetch: a review whose rating is not a number is not sent.
Fetch_SkipsNull(reqs, id, endpoint, payload) ==
    IF endpoint = "/submit_review" /\ payload.rating = JsonNull
    THEN reqs
    ELSE reqs \cup { Request(id, endpoint, payload) }

\* fetch(endpoint, {method: 'POST', ..., body: JSON.stringify(payload)})
Fetch(reqs, id, endpoint, payload) ==
    reqs \cup { Request(id, endpoint, payload) }

\* The requests of reqs other than r, those of form endpoint marked cleared
\* when the handler of r changed an input.
MarkCleared(reqs, r, endpoint, changed) ==
    { IF q.endpoint = endpoint /\ changed THEN [q EXCEPT !.cleared = TRUE] ELSE q
        : q \in reqs \ {r} }

\* The requests of reqs, those of form endpoint marked edited.
MarkEdited(reqs, endpoint) ==
    { IF q.endpoint = endpoint THEN [q EXCEPT !.edited = TRUE] ELSE q
        : q \in reqs }

InFlight(endpoint) == { r \in inflight : r.endpoint = endpoint }

\* ------------------------------------------------------------------------
\* Review form
\* ------------------------------------------------------------------------

\* The body of the /submit_review request.
ReviewPayload(f) ==
    [service_id |-> JsonNumber(ParseInt(f.serviceIdReview)),
     rating     |-> JsonNumber(ParseFloat(f.reviewRating)),
     comment    |-> f.reviewComment]

ReviewLoading(req) ==
    Message("loading", "Submitting review...", "mt-3 text-center", req)

\* Submit event of #reviewForm, up to await fetch(...).
ReviewSubmit ==
    /\ Idle
    /\ HasReviewForm(page)
    /\ triggered < MaxActions
    /\ triggered' = triggered + 1
    /\ issued' = issued + 1
    /\ reviewMessage' = ReviewLoading(issued')
    /\ inflight' =
                 Fetch(inflight, issued', "/submit_review", ReviewPayload(fields))
    /\ lastEvent' = Event("ReviewSubmit", issued', NoOutcome, TRUE)
    /\ lastSubmit' = [lastSubmit EXCEPT !.review = issued',
                                         !.reviewOutcome = NoOutcome]
    /\ UNCHANGED <<page, fields, bookingMessage, bookingRows, userRows, copied,
                   bodyTextAreas, timers, alertOpen, location, consumed>>

\* Variant of ReviewResultMessage: the catch block writes nothing.
ReviewResultMessage_CatchSilent(o, req) ==
    CASE o.kind = "success" -> Message("success", o.message, "mt-3", req)
      [] o.kind = "failure" -> Message("danger", o.message, "mt-3", req)
      [] o.kind = "throw" -> ReviewLoading(req)

\* #reviewMessage after the response of request req was handled.
ReviewResultMessage(o, req) ==
    CASE o.kind = "success" -> Message("success", o.message, "mt-3", req)
      [] o.kind = "failure" -> Message("danger", o.message, "mt-3", req)
      [] o.kind = "throw" ->
             Message("danger", "An unexpected error occurred.", "mt-3", req)

\* Variant of ReviewResultFields: the inputs are also emptied in the catch.
ReviewResultFields_CatchClears(f, o) ==
    IF o.kind # "failure"
    THEN [f EXCEPT !.reviewRating = <<>>, !.reviewComment = ""]
    ELSE f

\* The inputs after the response was handled.
ReviewResultFields(f, o) ==
    IF o.kind = "success"
    THEN [f EXCEPT !.reviewRating = <<>>, !.reviewComment = ""]
    ELSE f

ReloadTimer(req) ==
    [kind |-> "reload", delay |-> ReloadDelay, span |-> <<>>, req |-> req]

\* Variant of ReviewResultTimers: the reload is scheduled twice.
ReviewResultTimers_Twice(ts, o, req) ==
    IF o.kind = "success"
    THEN Append(Append(ts, ReloadTimer(req)), ReloadTimer(req))
    ELSE ts

\* Variant of ReviewResultTimers: the reload is scheduled after the if/else,
\* for every parsed response.
ReviewResultTimers_AnyResponse(ts, o, req) ==
    IF o.kind # "throw" THEN Append(ts, ReloadTimer(req)) ELSE ts

\* The timers after the response was handled.
ReviewResultTimers(ts, o, req) ==
    IF o.kind = "success" THEN Append(ts, ReloadTimer(req)) ELSE ts

\* Continuation of the review handler once fetch/json have settled with o.
ReviewResponse(r, o) ==
    /\ Idle
    /\ HasReviewForm(page)
    /\ r \in InFlight("/submit_review")
    /\ consumed' = consumed + 1
    /\ reviewMessage' = ReviewResultMessage(o, r.id)
    /\ fields' = ReviewResultFields(fields, o)
    /\ inflight' = MarkCleared(inflight, r, "/submit_review", fields' # fields)
    /\ timers' = ReviewResultTimers(timers, o, r.id)
    /\ lastEvent' = Event("ReviewResponse", r.id, o, TRUE)
    /\ lastSubmit' = Settled(lastSubmit, "review", r.id, o)
    /\ UNCHANGED <<page, bookingMessage, bookingRows, userRows, copied, bodyTextAreas,
                   alertOpen, location, triggered, issued>>

\* ------------------------------------------------------------------------
\* Booking form
\* ------------------------------------------------------------------------

\* The body of the /submit_booking request.
BookingPayload(f) ==
    [service_id    |-> JsonNumber(ParseInt(f.serviceIdBooking)),
     booking_date  |-> f.bookingDate,
     booking_notes |-> f.bookingNotes]

\* Variant of BookingDateMissing: the date is not checked before the request.
BookingDateMissing_Unchecked(d) == FALSE

\* !bookingDate
BookingDateMissing(d) == d = ""

BookingWarning ==
    Message("warning", "Please select a preferred date.", "mt-3", 0)

BookingLoading(req) ==
    Message("loading", "Submitting booking request...", "mt-3 text-center", req)

\* Submit event of #bookingForm, up to the early return or await fetch(...).
BookingSubmit ==
    /\ Idle
    /\ HasBookingForm(page)
    /\ triggered < MaxActions
    /\ triggered' = triggered + 1
    /\ IF BookingDateMissing(fields.bookingDate)
       THEN /\ bookingMessage' = BookingWarning
            /\ lastEvent' = Event("BookingSubmit", 0, NoOutcome, TRUE)
            /\ UNCHANGED <<inflight, issued>>
       ELSE /\ issued' = issued + 1
            /\ bookingMessage' = BookingLoading(issued')
            /\ inflight' =
                 Fetch(inflight, issued', "/submit_booking", BookingPayload(fields))
            /\ lastEvent' = Event("BookingSubmit", issued', NoOutcome, TRUE)
    /\ lastSubmit' = [lastSubmit EXCEPT !.booking = lastEvent'.req,
                                         !.bookingOutcome = NoOutcome]
    /\ UNCHANGED <<page, fields, reviewMessage, bookingRows, userRows, copied,
                   bodyTextAreas, timers, alertOpen, location, consumed>>

\* #bookingMessage after the response of request req was handled.
BookingResultMessage(o, req) ==
    CASE o.kind = "success" -> Message("success", o.message, "mt-3", req)
      [] o.kind = "failure" -> Message("danger", o.message, "mt-3", req)
      [] o.kind = "throw" ->
             Message("danger", "An unexpected error occurred.", "mt-3", req)

\* Variant of BookingResultFields: the whole form is reset on success.
BookingResultFields_Reset(f, o) ==
    IF o.kind = "success"
    THEN [f EXCEPT !.bookingDate = "", !.bookingNotes = "",
                   !.serviceIdBooking = <<>>]
    ELSE f

\* The inputs after the response was handled.
BookingResultFields(f, o) ==
    IF o.kind = "success"
    THEN [f EXCEPT !.bookingDate = "", !.bookingNotes = ""]
    ELSE f

\* Continuation of the booking handler once fetch/json have settled with o.
BookingResponse(r, o) ==
    /\ Idle
    /\ HasBookingForm(page)
    /\ r \in InFlight("/submit_booking")
    /\ consumed' = consumed + 1
    /\ bookingMessage' = BookingResultMessage(o, r.id)
    /\ fields' = BookingResultFields(fields, o)
    /\ inflight' = MarkCleared(inflight, r, "/submit_booking", fields' # fields)
    /\ lastEvent' = Event("BookingResponse", r.id, o, TRUE)
    /\ lastSubmit' = Settled(lastSubmit, "booking", r.id, o)
    /\ UNCHANGED <<page, reviewMessage, bookingRows, userRows, copied, bodyTextAreas,
                   timers, alertOpen, location, triggered, issued>>

\* The user types into (or picks a value for) one input of the forms.
EditField(name, value) ==
    /\ Idle
    /\ name \in {"reviewRating", "reviewComment"} => HasReviewForm(page)
    /\ name \in {"bookingDate", "bookingNotes"} => HasBookingForm(page)
    /\ fields[name] # value
    /\ fields' = [fields EXCEPT ![name] = value]
    /\ inflight' = MarkEdited(inflight,
                              IF name \in {"reviewRating", "reviewComment"}
                              THEN "/submit_review" ELSE "/submit_booking")
    /\ lastEvent' = Event("EditField", 0, NoOutcome, TRUE)
    /\ UNCHANGED <<page, lastSubmit, reviewMessage, bookingMessage, bookingRows, userRows, copied,
                   bodyTextAreas, timers, alertOpen, location,
                   triggered, issued, consumed>>


\* ------------------------------------------------------------------------
\* Remove booking, remove user, delete my account
\* ------------------------------------------------------------------------

\* Variant of Confirmed: the answer to confirm() is ignored.
Confirmed_Ignored(ok) == TRUE

\* if (confirm(...)): the handler goes on when the user accepts.
Confirmed(ok) == ok

\* Click on a .remove-booking-btn control carrying data-booking-id = id;
\* ok is the user's answer to confirm().
RemoveBookingClick(id, ok) ==
    /\ Idle
    /\ id \in RemoveBookingButtons(page)
    /\ triggered < MaxActions
    /\ triggered' = triggered + 1
    /\ IF Confirmed(ok)
       THEN /\ issued' = issued + 1
            /\ inflight' =
                 Fetch(inflight, issued', "/remove_booking", [booking_id |-> id])
            /\ lastEvent' = Event("RemoveBookingClick", issued', NoOutcome, ok)
       ELSE /\ lastEvent' = Event("RemoveBookingClick", 0, NoOutcome, ok)
            /\ UNCHANGED <<inflight, issued>>
    /\ UNCHANGED <<page, lastSubmit, fields, reviewMessage, bookingMessage, bookingRows, userRows,
                   copied, bodyTextAreas, timers, alertOpen, location, consumed>>

\* Variant of ResultAlert: the statement after the alert of the success
\* branch is placed after the if/else and also runs on success: false.
ResultAlert_FailureContinues(o, generic, then, id, req) ==
    CASE o.kind = "success" -> Alert(<<o.message>>, then, id, req)
      [] o.kind = "failure" -> Alert(<<"Error: ", o.message>>, then, id, req)
      [] o.kind = "throw" -> Alert(<<generic>>, "nothing", "", req)

\* Variant of ResultAlert: the statement after the alert of the success
\* branch is placed in a finally block and also runs when fetch throws.
ResultAlert_CatchContinues(o, generic, then, id, req) ==
    CASE o.kind = "success" -> Alert(<<o.message>>, then, id, req)
      [] o.kind = "failure" -> Alert(<<"Error: ", o.message>>, "nothing", "", req)
      [] o.kind = "throw" -> Alert(<<generic>>, then, id, req)

\* The alert() the removal and deletion handlers show for outcome o, and the
\* statement that follows it in the same branch.
ResultAlert(o, generic, then, id, req) ==
    CASE o.kind = "success" -> Alert(<<o.message>>, then, id, req)
      [] o.kind = "failure" -> Alert(<<"Error: ", o.message>>, "nothing", "", req)
      [] o.kind = "throw" -> Alert(<<generic>>, "nothing", "", req)

\* Continuation of the remove-booking handler, up to its alert().
RemoveBookingResponse(r, o) ==
    /\ Idle
    /\ r \in InFlight("/remove_booking")
    /\ inflight' = inflight \ {r}
    /\ consumed' = consumed + 1
    /\ alertOpen' =
         ResultAlert(o, "An error occurred while trying to remove the booking.",
                     "removeBookingRow", r.payload.booking_id, r.id)
    /\ lastEvent' = Event("RemoveBookingResponse", r.id, o, TRUE)
    /\ UNCHANGED <<page, lastSubmit, fields, reviewMessage, bookingMessage, bookingRows, userRows,
                   copied, bodyTextAreas, timers, location, triggered, issued>>

\* Click on a .remove-user-btn control carrying data-user-id = id.
RemoveUserClick(id, ok) ==
    /\ Idle
    /\ id \in RemoveUserButtons(page)
    /\ triggered < MaxActions
    /\ triggered' = triggered + 1
    /\ IF Confirmed(ok)
       THEN /\ issued' = issued + 1
            /\ inflight' =
                 Fetch(inflight, issued', "/remove_user", [user_id |-> id])
            /\ lastEvent' = Event("RemoveUserClick", issued', NoOutcome, ok)
       ELSE /\ lastEvent' = Event("RemoveUserClick", 0, NoOutcome, ok)
            /\ UNCHANGED <<inflight, issued>>
    /\ UNCHANGED <<page, lastSubmit, fields, reviewMessage, bookingMessage, bookingRows, userRows,
                   copied, bodyTextAreas, timers, alertOpen, location, consumed>>

\* Continuation of the remove-user handler, up to its alert().
RemoveUserResponse(r, o) ==
    /\ Idle
    /\ r \in InFlight("/remove_user")
    /\ inflight' = inflight \ {r}
    /\ consumed' = consumed + 1
    /\ alertOpen' =
         ResultAlert(o, "An error occurred while trying to remove the user.",
                     "removeUserRow", r.payload.user_id, r.id)
    /\ lastEvent' = Event("RemoveUserResponse", r.id, o, TRUE)
    /\ UNCHANGED <<page, lastSubmit, fields, reviewMessage, bookingMessage, bookingRows, userRows,
                   copied, bodyTextAreas, timers, location, triggered, issued>>

\* Click on #deleteMyAccountBtn.
DeleteMyAccountClick(ok) ==
    /\ Idle
    /\ HasDeleteMyAccountBtn(page)
    /\ triggered < MaxActions
    /\ triggered' = triggered + 1
    /\ IF Confirmed(ok)
       THEN /\ issued' = issued + 1
            /\ inflight' =
                 Fetch(inflight, issued', "/delete_my_account", <<>>)
            /\ lastEvent' = Event("DeleteMyAccountClick", issued', NoOutcome, ok)
       ELSE /\ lastEvent' = Event("DeleteMyAccountClick", 0, NoOutcome, ok)
            /\ UNCHANGED <<inflight, issued>>
    /\ UNCHANGED <<page, lastSubmit, fields, reviewMessage, bookingMessage, bookingRows, userRows,
                   copied, bodyTextAreas, timers, alertOpen, location, consumed>>

\* Continuation of the delete-my-account handler, up to its alert().
DeleteMyAccountResponse(r, o) ==
    /\ Idle
    /\ r \in InFlight("/delete_my_account")
    /\ inflight' = inflight \ {r}
    /\ consumed' = consumed + 1
    /\ alertOpen' =
         ResultAlert(o, "An error occurred while trying to delete your account.",
                     "navigate", "/welcome", r.id)
    /\ lastEvent' = Event("DeleteMyAccountResponse", r.id, o, TRUE)
    /\ UNCHANGED <<page, lastSubmit, fields, reviewMessage, bookingMessage, bookingRows, userRows,
                   copied, bodyTextAreas, timers, location, triggered, issued>>

\* Variant of RemoveRow: the table body is emptied instead of one row.
RemoveRow_All(rows, id) == {}

\* rowToRemove = document.getElementById(...); if (rowToRemove) remove it.
RemoveRow(rows, id) == rows \ {id}

\* document.getElementById(`booking-row-${id}`) (resp. user-row) is not null.
RowFound(a) ==
    /\ a.then = "removeBookingRow" => a.id \in bookingRows
    /\ a.then = "removeUserRow" => a.id \in userRows

\* The statement after alert(result.message) in a success branch.
AfterAlert(a) ==
    /\ bookingRows' = IF a.then = "removeBookingRow"
                      THEN RemoveRow(bookingRows, a.id) ELSE bookingRows
    /\ userRows' = IF a.then = "removeUserRow"
                   THEN RemoveRow(userRows, a.id) ELSE userRows
    /\ location' = IF a.then = "navigate" THEN a.id ELSE location

\* The user dismisses the alert; the handler that opened it runs to its end.
DismissAlert ==
    /\ location = "page"
    /\ alertOpen.open
    /\ alertOpen' = NoAlert
    /\ AfterAlert(alertOpen)
    /\ lastEvent' =
         [Event("DismissAlert", alertOpen.req,
                [kind |-> alertOpen.then, message |-> alertOpen.id], TRUE)
            EXCEPT !.found = RowFound(alertOpen)]
    /\ UNCHANGED <<page, lastSubmit, fields, reviewMessage, bookingMessage, copied, bodyTextAreas,
                   inflight, timers, triggered, issued, consumed>>

\* ------------------------------------------------------------------------
\* Specification
\* ------------------------------------------------------------------------

FieldValues ==
    [serviceIdReview  |-> ServiceIdValues,
     reviewRating     |-> RatingValues,
     reviewComment    |-> CommentValues,
     serviceIdBooking |-> ServiceIdValues,
     bookingDate      |-> DateValues,
     bookingNotes     |-> NotesValues]

\* The inputs the user edits; the service ids are rendered by the page.
UserFields == {"reviewRating", "reviewComment", "bookingDate", "bookingNotes"}

\* The document when DOMContentLoaded has run the registration code.
Init ==
    /\ page \in Pages
    /\ \E sr \in ServiceIdValues, sb \in ServiceIdValues :
         /\ ~HasReviewForm(page) => sr = <<"7">>
         /\ ~HasBookingForm(page) => sb = <<"7">>
         /\ fields = [serviceIdReview  |-> sr, reviewRating |-> <<>>,
                   reviewComment    |-> "",
                   serviceIdBooking |-> sb, bookingDate  |-> "",
                   bookingNotes     |-> ""]
    /\ reviewMessage = Message("empty", "", "mt-3", 0)
    /\ bookingMessage = Message("empty", "", "mt-3", 0)
    /\ bookingRows = RemoveBookingButtons(page)
    /\ userRows = RemoveUserButtons(page)
    /\ copied = [s \in CopiedSpans(page) |-> FALSE]
    /\ bodyTextAreas = 0
    /\ inflight = {}
    /\ timers = <<>>
    /\ alertOpen = NoAlert
    /\ location = "page"
    /\ triggered = 0
    /\ issued = 0
    /\ consumed = 0
    /\ lastSubmit = NoSubmit
    /\ lastEvent = Event("DOMContentLoaded", 0, NoOutcome, TRUE)

Next ==
    \/ \E b \in CopyButtons(page), threw \in BOOLEAN : CopyClick(b, threw)
    \/ \E i \in 1..Len(timers) : TimerFire(i)
    \/ ReviewSubmit
    \/ \E r \in inflight, o \in Outcomes : ReviewResponse(r, o)
    \/ BookingSubmit
    \/ \E r \in inflight, o \in Outcomes : BookingResponse(r, o)
    \/ \E n \in UserFields : \E v \in FieldValues[n] : EditField(n, v)
    \/ \E id \in BookingIds, ok \in BOOLEAN : RemoveBookingClick(id, ok)
    \/ \E r \in inflight, o \in Outcomes : RemoveBookingResponse(r, o)
    \/ \E id \in UserIds, ok \in BOOLEAN : RemoveUserClick(id, ok)
    \/ \E r \in inflight, o \in Outcomes : RemoveUserResponse(r, o)
    \/ \E ok \in BOOLEAN : DeleteMyAccountClick(ok)
    \/ \E r \in inflight, o \in Outcomes : DeleteMyAccountResponse(r, o)
    \/ DismissAlert

Spec == Init /\ [][Next]_vars

TypeOK ==
    /\ triggered \in 0..MaxActions
    /\ issued \in 0..triggered
    /\ bodyTextAreas \in Nat
    /\ bookingRows \subseteq BookingIds
    /\ userRows \subseteq UserIds


\* ------------------------------------------------------------------------
\* Properties
\* ------------------------------------------------------------------------

RemovalClicks == {"RemoveBookingClick", "RemoveUserClick", "DeleteMyAccountClick"}

RemovalResponses ==
    {"RemoveBookingResponse", "RemoveUserResponse", "DeleteMyAccountResponse"}

\* The request whose response the step handles.
Handled(r) == r \in inflight /\ r.id = lastEvent'.req /\ r.id \notin {q.id : q \in inflight'}

\* C1: a submit event of the booking form with an empty date field issues no
\* request (the requests in flight and the number of requests issued are
\* unchanged) and leaves the warning in the booking message area.
C1_EmptyDateNoRequest ==
    [][(lastEvent'.op = "BookingSubmit" /\ fields.bookingDate = "")
         => /\ inflight' = inflight
            /\ issued' = issued
            /\ bookingMessage' = BookingWarning
            /\ bookingMessage'.kind = "warning"
            /\ bookingMessage'.text = "Please select a preferred date."]_vars

\* A booking submission with an empty date and a note has shown the warning
\* while an earlier booking request was in flight.
C1_Witness ==
    /\ lastEvent.op = "BookingSubmit"
    /\ fields.bookingDate = ""
    /\ fields.bookingNotes = "x"
    /\ bookingMessage.kind = "warning"
    /\ InFlight("/submit_booking") # {}

\* C2: a click on a removal or deletion control whose confirmation is declined
\* issues no request, removes no row, opens no notification and does not
\* navigate.
C2_DeclinedConfirmation ==
    [][(lastEvent'.op \in RemovalClicks /\ ~lastEvent'.ok)
         => /\ inflight' = inflight
            /\ issued' = issued
            /\ bookingRows' = bookingRows
            /\ userRows' = userRows
            /\ ~alertOpen'.open
            /\ location' = location
            /\ timers' = timers]_vars

\* The deletion of the account was declined while a removal was in flight.
C2_Witness ==
    /\ lastEvent.op = "DeleteMyAccountClick"
    /\ ~lastEvent.ok
    /\ InFlight("/remove_booking") # {}
    /\ InFlight("/delete_my_account") = {}

\* C3: when the success response of a removal for identifier X is handled,
\* the server message is shown and, once it is dismissed, the row of X is
\* absent and every other booking row and user row is as before; a removal
\* that finds no row removes nothing.
C3_RemovalSuccess ==
    [][/\ (lastEvent'.op \in {"RemoveBookingResponse", "RemoveUserResponse"}
             /\ lastEvent'.outcome.kind = "success")
          => \E r \in inflight :
               /\ Handled(r)
               /\ alertOpen'.open
               /\ alertOpen'.text = <<lastEvent'.outcome.message>>
               /\ alertOpen'.then = IF r.endpoint = "/remove_booking"
                                    THEN "removeBookingRow" ELSE "removeUserRow"
               /\ alertOpen'.id = IF r.endpoint = "/remove_booking"
                                  THEN r.payload.booking_id ELSE r.payload.user_id
               /\ bookingRows' = bookingRows
               /\ userRows' = userRows
       /\ (alertOpen.open /\ alertOpen.then = "removeBookingRow")
          => /\ lastEvent'.op = "DismissAlert"
             /\ alertOpen.id \notin bookingRows'
             /\ bookingRows' = bookingRows \ {alertOpen.id}
             /\ userRows' = userRows
       /\ (alertOpen.open /\ alertOpen.then = "removeUserRow")
          => /\ lastEvent'.op = "DismissAlert"
             /\ alertOpen.id \notin userRows'
             /\ userRows' = userRows \ {alertOpen.id}
             /\ bookingRows' = bookingRows]_vars

\* The second of two successful removals of the same booking found no row,
\* and the row of the other booking is still there.
C3_Witness ==
    /\ lastEvent.op = "DismissAlert"
    /\ lastEvent.outcome.kind = "removeBookingRow"
    /\ ~lastEvent.found
    /\ Cardinality(bookingRows) = Cardinality(BookingIds) - 1
    /\ lastEvent.outcome.message \notin bookingRows

ReloadTimers(ts) == { i \in 1..Len(ts) : ts[i].kind = "reload" }

\* C4: when the success response of a review submission is handled, the
\* rating and comment inputs are empty afterwards, the success message is
\* shown, and exactly one reload timer of 1500 ms is scheduled for that
\* submission.
C4_ReviewSuccess ==
    [][(lastEvent'.op = "ReviewResponse" /\ lastEvent'.outcome.kind = "success")
         => /\ fields'.reviewRating = <<>>
            /\ fields'.reviewComment = ""
            /\ reviewMessage'.kind = "success"
            /\ reviewMessage'.text = lastEvent'.outcome.message
            /\ Len(timers') = Len(timers) + 1
            /\ SubSeq(timers', 1, Len(timers)) = timers
            /\ timers'[Len(timers')].kind = "reload"
            /\ timers'[Len(timers')].delay = 1500
            /\ Cardinality({ i \in ReloadTimers(timers') :
                               timers'[i].req = lastEvent'.req }) = 1]_vars

\* Two review submissions have succeeded: each has its own reload timer.
C4_Witness ==
    /\ lastEvent.op = "ReviewResponse"
    /\ lastEvent.outcome.kind = "success"
    /\ Len(timers) = 2
    /\ timers[1].req # timers[2].req
    /\ reviewMessage.kind = "success"

GenericAlerts ==
    { <<"An error occurred while trying to remove the booking.">>,
      <<"An error occurred while trying to remove the user.">>,
      <<"An error occurred while trying to delete your account.">> }

\* C5: when fetch or the JSON parse of an action throws, a generic error is
\* displayed (in the message area of the form, in a notification for the
\* click actions), the inputs keep their values, no row is removed, no timer
\* is scheduled and the location is unchanged, also once the notification is
\* dismissed.
C5_TransportFailure ==
    [][/\ lastEvent'.outcome.kind = "throw"
          => /\ fields' = fields
             /\ bookingRows' = bookingRows
             /\ userRows' = userRows
             /\ timers' = timers
             /\ location' = location
             /\ lastEvent'.op = "ReviewResponse"
                  => /\ reviewMessage'.kind = "danger"
                     /\ reviewMessage'.text = "An unexpected error occurred."
             /\ lastEvent'.op = "BookingResponse"
                  => /\ bookingMessage'.kind = "danger"
                     /\ bookingMessage'.text = "An unexpected error occurred."
             /\ lastEvent'.op \in RemovalResponses
                  => /\ alertOpen'.open
                     /\ alertOpen'.text \in GenericAlerts
       /\ (alertOpen.open /\ alertOpen.text \in GenericAlerts)
          => /\ lastEvent'.op = "DismissAlert"
             /\ fields' = fields
             /\ bookingRows' = bookingRows
             /\ userRows' = userRows
             /\ timers' = timers
             /\ location' = location]_vars

\* The fetch of a review submission has thrown: the generic error is shown
\* and the rating and the comment the user entered are still in the inputs.
C5_Witness ==
    /\ lastEvent.op = "ReviewResponse"
    /\ lastEvent.outcome.kind = "throw"
    /\ reviewMessage.text = "An unexpected error occurred."
    /\ fields.reviewRating # <<>>
    /\ fields.reviewComment = "Great"


\* The steps that trigger an action and call fetch.
Issuing ==
    \/ lastEvent'.op = "ReviewSubmit"
    \/ lastEvent'.op = "BookingSubmit" /\ fields.bookingDate # ""
    \/ lastEvent'.op \in RemovalClicks /\ lastEvent'.ok

\* C6 as stated: in every reachable state the number of requests issued
\* equals the number of actions triggered.
C6_OneRequestPerAction == issued = triggered

\* C6, amended: a triggered action issues at most one request: exactly one
\* for a review submission, a booking submission with a date and a confirmed
\* removal or deletion click, none for a copy click, a booking submission
\* without a date and a declined click; the request is new and no step adds
\* another one; a request leaves the set in flight only when its response is
\* handled, once; so issued <= triggered and issued = consumed + in flight.
C6_AtMostOneRequestPerAction ==
    /\ [](/\ issued <= triggered
          /\ issued = consumed + Cardinality(inflight)
          /\ Cardinality({r.id : r \in inflight}) = Cardinality(inflight))
    /\ [][/\ triggered' \in {triggered, triggered + 1}
          /\ (triggered' = triggered + 1 /\ Issuing)
             => /\ issued' = issued + 1
                /\ consumed' = consumed
                /\ inflight \subseteq inflight'
                /\ Cardinality(inflight' \ inflight) = 1
                /\ \A r \in inflight' \ inflight : r.id = issued'
          /\ (triggered' = triggered + 1 /\ ~Issuing)
             => /\ issued' = issued
                /\ consumed' = consumed
                /\ inflight' = inflight
          /\ triggered' = triggered
             => /\ issued' = issued
                /\ {r.id : r \in inflight'} \subseteq {r.id : r \in inflight}
                /\ consumed' - consumed = Cardinality(inflight) - Cardinality(inflight')
                /\ consumed' - consumed \in {0, 1}]_vars

\* Two actions were triggered, one of them issued no request, and the
\* response of the other has been handled.
C6_Witness ==
    /\ triggered = 2
    /\ issued = 1
    /\ consumed = 1
    /\ inflight = {}

\* C7: a reload timer is scheduled only by the step that handles a
\* /submit_review response with success = true; every other step (review
\* failure or throw, booking, removal, deletion, copy, dismissal, timer) adds
\* none, and the page is reloaded only by such a timer.
C7_ReloadOnlyOnReviewSuccess ==
    [][/\ Cardinality(ReloadTimers(timers')) > Cardinality(ReloadTimers(timers))
          => /\ lastEvent'.op = "ReviewResponse"
             /\ lastEvent'.outcome.kind = "success"
             /\ \E r \in inflight : Handled(r) /\ r.endpoint = "/submit_review"
       /\ ~(lastEvent'.op = "ReviewResponse" /\ lastEvent'.outcome.kind = "success")
          => Cardinality(ReloadTimers(timers')) <= Cardinality(ReloadTimers(timers))
       /\ location' # location /\ location' = "page (reloaded)"
          => /\ lastEvent'.op = "TimerFire"
             /\ ReloadTimers(timers) # {}]_vars

\* One review submission has failed and one has thrown after another one
\* succeeded: the only reload timer is the one of the success.
C7_Witness ==
    /\ lastEvent.op = "ReviewResponse"
    /\ lastEvent.outcome.kind \in {"failure", "throw"}
    /\ Len(timers) = 1
    /\ timers[1].kind = "reload"
    /\ timers[1].req # lastEvent.req

\* C8: the location becomes /welcome only when the notification of the server
\* message of a success response to /delete_my_account is dismissed, and such
\* a request is only issued by a confirmed click; a declined click, a
\* success = false response and a transport error leave the location as it
\* is, also once their notification is dismissed.
C8_DeletionNavigation ==
    [][/\ location' # location /\ location' = "/welcome"
          => /\ lastEvent'.op = "DismissAlert"
             /\ alertOpen.open
             /\ alertOpen.then = "navigate"
       /\ (alertOpen'.open /\ alertOpen'.then = "navigate" /\ ~alertOpen.open)
          => /\ lastEvent'.op = "DeleteMyAccountResponse"
             /\ lastEvent'.outcome.kind = "success"
             /\ alertOpen'.text = <<lastEvent'.outcome.message>>
             /\ location' = location
             /\ \E r \in inflight : Handled(r) /\ r.endpoint = "/delete_my_account"
       /\ (\E r \in inflight' \ inflight : r.endpoint = "/delete_my_account")
          => lastEvent'.op = "DeleteMyAccountClick" /\ lastEvent'.ok
       /\ lastEvent'.op = "DeleteMyAccountClick"
          => location' = location /\ ~alertOpen'.open
       /\ (lastEvent'.op = "DeleteMyAccountResponse"
             /\ lastEvent'.outcome.kind # "success")
          => /\ location' = location
             /\ alertOpen'.open
             /\ alertOpen'.then = "nothing"
       /\ (alertOpen.open /\ alertOpen.then # "navigate")
          => location' = location]_vars

\* The account was deleted: the window shows /welcome.
C8_Witness ==
    /\ location = "/welcome"
    /\ lastEvent.op = "DismissAlert"
    /\ ~alertOpen.open

\* C9: when the success = false response of a booking or user removal is
\* handled, a notification "Error: <server message>" is shown and the
\* booking rows and user rows are what they were, also once the notification
\* is dismissed.
C9_RemovalFailure ==
    [][/\ (lastEvent'.op \in {"RemoveBookingResponse", "RemoveUserResponse"}
             /\ lastEvent'.outcome.kind = "failure")
          => /\ alertOpen'.open
             /\ alertOpen'.text = <<"Error: ", lastEvent'.outcome.message>>
             /\ bookingRows' = bookingRows
             /\ userRows' = userRows
       /\ (alertOpen.open /\ alertOpen.text # <<>> /\ alertOpen.text[1] = "Error: ")
          => /\ lastEvent'.op = "DismissAlert"
             /\ bookingRows' = bookingRows
             /\ userRows' = userRows]_vars

\* The removal of a user has failed after the removal of another user
\* succeeded: the error is shown and only the row of the latter is gone.
C9_Witness ==
    /\ alertOpen.open
    /\ alertOpen.text[1] = "Error: "
    /\ lastEvent.op = "RemoveUserResponse"
    /\ Cardinality(userRows) = Cardinality(UserIds) - 1


\* The step handles the success = false response of form request r.
FormFailure(r) ==
    /\ Handled(r)
    /\ lastEvent'.op \in {"ReviewResponse", "BookingResponse"}
    /\ lastEvent'.outcome.kind = "failure"

\* The server message is shown as an error in the message area of r's form.
FailureShown(r) ==
    IF r.endpoint = "/submit_review"
    THEN /\ reviewMessage'.kind = "danger"
         /\ reviewMessage'.text = lastEvent'.outcome.message
    ELSE /\ bookingMessage'.kind = "danger"
         /\ bookingMessage'.text = lastEvent'.outcome.message

\* A submit event of r's form in the state after the step calls fetch with
\* the payload r carried.
ResubmitSame(r) ==
    IF r.endpoint = "/submit_review"
    THEN ReviewPayload(fields') = r.payload
    ELSE /\ fields'.bookingDate # ""
         /\ BookingPayload(fields') = r.payload

\* C10 as stated: when the success = false response of a review or booking
\* submission is handled, the server message is shown as an error, every
\* input keeps its value, and (the user not having edited the form since the
\* submission) submitting the form again issues a request with the same
\* payload.
C10_FailureRecoverable ==
    [][\A r \in inflight :
         (FormFailure(r) /\ ~r.edited)
           => /\ FailureShown(r)
              /\ fields' = fields
              /\ ResubmitSame(r)]_vars

\* C10, amended: the step that handles the success = false response shows the
\* server message as an error and changes no input; a later submit event
\* issues a new request built from the inputs as they are then, which is the
\* payload of the failed request when no input of the form was changed since
\* that request was issued, neither by the user nor by the success response
\* of another submission of the same form.
C10_FailureKeepsInputs ==
    [][/\ \A r \in inflight :
            FormFailure(r)
              => /\ FailureShown(r)
                 /\ fields' = fields
                 /\ (~r.edited /\ ~r.cleared) => ResubmitSame(r)
       /\ lastEvent'.op = "ReviewSubmit"
          => \E q \in inflight' \ inflight :
               /\ q.id \notin {r.id : r \in inflight}
               /\ q.endpoint = "/submit_review"
               /\ q.payload = ReviewPayload(fields)
       /\ (lastEvent'.op = "BookingSubmit" /\ fields.bookingDate # "")
          => \E q \in inflight' \ inflight :
               /\ q.id \notin {r.id : r \in inflight}
               /\ q.endpoint = "/submit_booking"
               /\ q.payload = BookingPayload(fields)]_vars

\* A booking submission has failed: the server message is shown as an error
\* and the date and the notes are still in the inputs.
C10_Witness ==
    /\ lastEvent.op = "BookingResponse"
    /\ lastEvent.outcome.kind = "failure"
    /\ bookingMessage.kind = "danger"
    /\ bookingMessage.text = lastEvent.outcome.message
    /\ fields.bookingDate # ""
    /\ fields.bookingNotes = "x"


\* C11: when the success = true response of a booking submission is handled,
\* the success message is shown, the date and notes inputs are empty, the
\* service id input (and every other input) is as it was, and no timer is
\* scheduled, no dialog opened and the location is unchanged.
C11_BookingSuccess ==
    [][(lastEvent'.op = "BookingResponse" /\ lastEvent'.outcome.kind = "success")
         => /\ bookingMessage'.kind = "success"
            /\ bookingMessage'.text = lastEvent'.outcome.message
            /\ fields'.bookingDate = ""
            /\ fields'.bookingNotes = ""
            /\ fields'.serviceIdBooking = fields.serviceIdBooking
            /\ fields'.serviceIdReview = fields.serviceIdReview
            /\ fields'.reviewRating = fields.reviewRating
            /\ fields'.reviewComment = fields.reviewComment
            /\ timers' = timers
            /\ location' = location
            /\ ~alertOpen'.open]_vars

\* A booking for service 7 has succeeded: the success message is shown, the
\* date and notes are empty and the service id is still 7.
C11_Witness ==
    /\ lastEvent.op = "BookingResponse"
    /\ lastEvent.outcome.kind = "success"
    /\ bookingMessage.kind = "success"
    /\ fields.bookingDate = ""
    /\ fields.serviceIdBooking = <<"7">>
    /\ timers = <<>>
    /\ location = "page"


\* C12 as stated: while the 2000 ms timer started by a click on a copy control
\* is pending, the indicator of that control is visible.
C12_VisibleWhileTimerPending ==
    \A i \in 1..Len(timers) :
        timers[i].kind = "hide" => copied[timers[i].span]


\* The alert and the text a message area shows.
Shown(m) == <<m.kind, m.text>>

\* C13 as stated: in every state where no request of a form is in flight, the
\* message area of the form shows the outcome of the latest submit event of
\* that form: what its response was, or the warning when it issued no
\* request.
C13_MessageOfLatestSubmission ==
    /\ (InFlight("/submit_review") = {} /\ lastSubmit.review > 0)
       => Shown(reviewMessage)
            = Shown(ReviewResultMessage(lastSubmit.reviewOutcome, 0))
    /\ (InFlight("/submit_booking") = {} /\ lastSubmit.booking > 0)
       => Shown(bookingMessage)
            = Shown(BookingResultMessage(lastSubmit.bookingOutcome, 0))
    /\ (InFlight("/submit_booking") = {} /\ lastSubmit.booking = 0)
       => Shown(bookingMessage) = Shown(BookingWarning)

\* The requests of reqs with the endpoint and the body of q.
SameRequest(reqs, q) ==
    { r \in reqs : r.endpoint = q.endpoint /\ r.payload = q.payload }

\* Two requests of endpoint with the same body are in flight.
Doubled(endpoint) ==
    \E r, q \in InFlight(endpoint) : r.id # q.id /\ r.payload = q.payload

\* C14: no triggering step is blocked by an outstanding request: a review
\* submission, a booking submission with a date and a confirmed removal or
\* deletion click add one new request, also when a request with the same
\* endpoint and the same body is already in flight, whose number then grows
\* by one.
C14_DoubleSubmissionNotBlocked ==
    [][(triggered' = triggered + 1 /\ Issuing)
         => \E q \in inflight' \ inflight :
              /\ q.id = issued'
              /\ inflight' = inflight \cup {q}
              /\ Cardinality(SameRequest(inflight', q))
                   = Cardinality(SameRequest(inflight, q)) + 1]_vars

\* The review form was submitted twice without a response in between: two
\* /submit_review requests with the same body are in flight.
C14_Witness ==
    /\ Doubled("/submit_review")
    /\ lastEvent.op = "ReviewSubmit"
    /\ issued = 2
    /\ consumed = 0

\* C15: a submit event of the review form issues exactly one request to
\* /submit_review whose body is built from the current field values,
\* whatever they are: a service id and a rating that do not parse are sent
\* as null.
C15_ReviewNeverRejected ==
    [][lastEvent'.op = "ReviewSubmit"
         => /\ issued' = issued + 1
            /\ \E q \in inflight' \ inflight :
                 /\ inflight' = inflight \cup {q}
                 /\ q.id = issued'
                 /\ q.endpoint = "/submit_review"
                 /\ q.payload.comment = fields.reviewComment
                 /\ q.payload.service_id = JsonNumber(ParseInt(fields.serviceIdReview))
                 /\ q.payload.rating = JsonNumber(ParseFloat(fields.reviewRating))
                 /\ (fields.reviewRating \in {<<>>, <<"a", "b", "c">>})
                      => q.payload.rating = JsonNull
                 /\ fields.serviceIdReview = <<>>
                      => q.payload.service_id = JsonNull]_vars

\* The review form was submitted with an empty service id, a rating that is
\* not a number and an empty comment: the request is in flight with nulls.
C15_Witness ==
    /\ lastEvent.op = "ReviewSubmit"
    /\ fields.serviceIdReview = <<>>
    /\ fields.reviewRating = <<"a", "b", "c">>
    /\ fields.reviewComment = ""
    /\ \E r \in InFlight("/submit_review") :
         /\ r.id = issued
         /\ r.payload.service_id = JsonNull
         /\ r.payload.rating = JsonNull

\* C16: when a message area shows the loading indicator a request of its
\* form is in flight; when none is in flight after a submit event the area
\* shows a success, error, warning or generic error message.
C16_LoadingNeverStale ==
    /\ reviewMessage.kind = "loading" => InFlight("/submit_review") # {}
    /\ bookingMessage.kind = "loading" => InFlight("/submit_booking") # {}
    /\ (InFlight("/submit_review") = {} /\ lastSubmit.review >= 0)
       => reviewMessage.kind \in {"success", "danger", "warning"}
    /\ (InFlight("/submit_booking") = {} /\ lastSubmit.booking >= 0)
       => bookingMessage.kind \in {"success", "danger", "warning"}

\* The fetch of the only review submission was rejected: nothing is in flight
\* and the area shows the generic error instead of the loading indicator.
C16_Witness ==
    /\ lastEvent.op = "ReviewResponse"
    /\ lastEvent.outcome.kind = "throw"
    /\ lastSubmit.review = 1
    /\ InFlight("/submit_review") = {}
    /\ reviewMessage.kind = "danger"
    /\ reviewMessage.text = "An unexpected error occurred."

\* C17: the body contains no temporary textarea in any state, and a copy
\* click leaves none, whether the copy command succeeds or throws.
C17_TextAreaRemoved ==
    /\ [](bodyTextAreas = 0)
    /\ [][lastEvent'.op = "CopyClick" => bodyTextAreas' = 0]_vars

\* A click on the copy control of the service page whose copy command threw:
\* no indicator is shown, no timer is started, the textarea is gone.
C17_Witness ==
    /\ page = "service"
    /\ lastEvent.op = "CopyClick"
    /\ triggered = 1
    /\ timers = <<>>
    /\ \A sp \in CopiedSpans(page) : ~copied[sp]
    /\ bodyTextAreas = 0

====
